---- MODULE Spec2Model ----
(***************************************************************************)
(* A model of galquench's catalogue pipeline                                *)
(* (src/galquench/utils/illustris_load.py) and of the driver script        *)
(* (src/scripts/get_tng_data.py).                                          *)
(*                                                                         *)
(* A Python dict is an ordered sequence of entries [k |-> key, v |-> val]  *)
(* with pairwise distinct keys.  A numpy array is a record                 *)
(* [dtype, ndim, data]; data is a sequence of elements (ndim = 1) or a     *)
(* sequence of rows (ndim = 2).  An element is <<"fin", n>>, <<"nan", 0>>  *)
(* or <<"inf", 0>>.  A field name is a sequence: <<"A">> is "A" and        *)
(* <<"A", 1>> is "A_1", so that name + "_{}".format(column) is Append.     *)
(***************************************************************************)
EXTENDS Integers, Sequences, FiniteSets

VARIABLES pc, catalog, column_mapping, catalogs, N, subhalos, arr, units,
          selection, only_finite, ret, err, orig, ans, file, prompts

vars == <<pc, catalog, column_mapping, catalogs, N, subhalos, arr, units,
          selection, only_finite, ret, err, orig, ans, file, prompts>>

\* ------------------------------------------------------------- bounds
\* Largest canonical universe size N that is explored.
MaxN == 3
\* Largest number of records of a sparse catalogue.
MaxM == 2
\* Finite element values are 1..MaxVal.
MaxVal == 2
\* Most prompts the operator answers in one run of the driver.
MaxPrompts == 5
\* Columns of a 2-D field.
MaxCols == 2

\* ----------------------------------------------------------- elements
NaN == <<"nan", 0>>
Inf == <<"inf", 0>>
Fin(n) == <<"fin", n>>
IsFin(x) == x[1] = "fin"
\* What an unsafe cast of NaN to a 64-bit integer leaves behind: the most
\* negative integer on x86, zero on other hardware.
IntMin == <<"intmin", 0>>
CastNaNToInt == {IntMin, Fin(0)}

Array1(dtype, data) == [dtype |-> dtype, ndim |-> 1, data |-> data]
Array2(dtype, rows) == [dtype |-> dtype, ndim |-> 2, data |-> rows]
None == <<>>

\* ------------------------------------------------------------- dicts
Keys(d) == [i \in 1..Len(d) |-> d[i].k]
KeySet(d) == {d[i].k : i \in 1..Len(d)}
HasKey(d, k) == \E i \in 1..Len(d) : d[i].k = k
Get(d, k) == d[CHOOSE i \in 1..Len(d) : d[i].k = k].v
\* dict.update({k: v}): an existing key keeps its place, a new one is appended.
Update(d, k, v) ==
    IF HasKey(d, k)
    THEN [i \in 1..Len(d) |-> IF d[i].k = k THEN [k |-> k, v |-> v] ELSE d[i]]
    ELSE Append(d, [k |-> k, v |-> v])
\* dict.pop(k)
Pop(d, k) == SelectSeq(d, LAMBDA e : e.k # k)

SubfindID == <<"subfindID">>
Count == <<"count">>

\* --------------------------------------------------- match_subfind
\* numpy.full(N, fill_value=numpy.nan, dtype=dtype): a float array holds NaN;
\* an integer array cannot, and holds what the cast of NaN leaves (g).
NumpyFull(n, dtype, g) ==
    Array1(dtype, [i \in 1..n |-> IF dtype = "float" THEN NaN ELSE g])

RECURSIVE ScatterFrom(_, _, _, _)
\* full[ids] = data, written record by record from position i on: a repeated
\* identifier is written again, so its last record stays.
ScatterFrom(full, ids, data, i) ==
    IF i > Len(ids) THEN full
    ELSE ScatterFrom([full EXCEPT ![ids[i][2] + 1] = data[i]], ids, data, i + 1)

RECURSIVE ScatterDownFrom(_, _, _, _)
ScatterDownFrom(full, ids, data, i) ==
    IF i < 1 THEN full
    ELSE ScatterDownFrom([full EXCEPT ![ids[i][2] + 1] = data[i]], ids, data, i - 1)

\* A scatter that writes the records in reverse, so that the first record of a
\* repeated identifier stays.
ScatterFirstWins(full, ids, data) == ScatterDownFrom(full, ids, data, Len(ids))

Scatter(full, ids, data) == ScatterFrom(full, ids, data, 1)

\* full[ids] = data with the identifiers checked first: one outside [0, n)
\* raises IndexError and nothing is written.
IndexInBounds(ids, n) == \A i \in 1..Len(ids) : ids[i][2] \in 0..(n - 1)

\* The body of the loop over the keys for one key of one catalogue.
MatchKey(cat, key, n, g) ==
    IF key = SubfindID THEN cat
    ELSE LET data == Get(cat, key)
             full == NumpyFull(n, data.dtype, g)
         IN  Update(cat, key,
                    [full EXCEPT !.data =
                        Scatter(full.data, Get(cat, SubfindID).data, data.data)])

RECURSIVE MatchKeysFrom(_, _, _, _, _)
MatchKeysFrom(cat, keys, i, n, g) ==
    IF i > Len(keys) THEN cat
    ELSE MatchKeysFrom(MatchKey(cat, keys[i], n, g), keys, i + 1, n, g)

\* The first loop over one catalogue: every field but subfindID is aligned.
MatchCatalog(cat, n, g) == MatchKeysFrom(cat, Keys(cat), 1, n, g)

\* A catalogue whose scatter raises: it has a field to align and an identifier
\* out of bounds.  Its first field raises, so the catalogue is left as it was.
MatchRaises(cat, n) ==
    /\ KeySet(cat) # {SubfindID}
    /\ ~IndexInBounds(Get(cat, SubfindID).data, n)

\* match_subfind(catalogs, N): the catalogues after the call and the exception
\* it ended with.  The identifiers are dropped by a second loop, which an
\* exception of the first never reaches.
match_subfind(cats, n, g) ==
    LET bad == {c \in 1..Len(cats) : MatchRaises(cats[c], n)}
    IN  IF bad = {}
        THEN [err |-> "none",
              cats |-> [c \in 1..Len(cats) |->
                           Pop(MatchCatalog(cats[c], n, g), SubfindID)]]
        ELSE LET c0 == CHOOSE c \in bad : \A d \in bad : c <= d
             IN  [err |-> "IndexError",
                  cats |-> [c \in 1..Len(cats) |->
                               IF c < c0 THEN MatchCatalog(cats[c], n, g)
                               ELSE cats[c]]]

\* Sparse catalogues as read_supplementary returns them: subfindID first, an
\* integer array, then one or two fields of its length.  Record i of a field
\* holds the value i (or NaN, in a float field), so records are told apart.
FieldNames == {<<"a">>, <<"b">>}
IdArrays(n, m) == {Array1("int", ids) : ids \in [1..m -> {Fin(i) : i \in 0..n}]}
FloatData(m) == {[i \in 1..m |-> IF i \in S THEN NaN ELSE Fin(i)] : S \in SUBSET (1..m)}
FieldArrays(m) ==
    {Array1("float", d) : d \in FloatData(m)} \cup {Array1("int", [i \in 1..m |-> Fin(i)])}
SparseCatalogs(n, maxm) ==
    UNION {
      {<<[k |-> SubfindID, v |-> ids], [k |-> f, v |-> x]>> :
          ids \in IdArrays(n, m), f \in FieldNames, x \in FieldArrays(m)}
      \cup
      {<<[k |-> SubfindID, v |-> ids], [k |-> <<"a">>, v |-> x], [k |-> <<"b">>, v |-> y]>> :
          ids \in IdArrays(n, m), x \in FieldArrays(m), y \in FieldArrays(m)}
      : m \in 0..maxm}

MatchInit ==
    /\ pc = "match_subfind"
    /\ N \in 1..MaxN
    /\ catalogs \in {<<c>> : c \in SparseCatalogs(N, MaxM)}
                    \cup {<<c, d>> : c \in SparseCatalogs(N, 1), d \in SparseCatalogs(N, 1)}
    /\ orig = catalogs
    /\ ret = None /\ err = "none"
    /\ catalog = None /\ column_mapping = None /\ subhalos = None /\ arr = None
    /\ units = None /\ selection = None /\ only_finite = FALSE
    /\ ans = "" /\ file = None /\ prompts = 0

\* The call match_subfind(catalogs, N); the list passed in is the one returned.
MatchSubfind ==
    /\ pc = "match_subfind"
    /\ \E g \in CastNaNToInt :
         LET r == match_subfind(catalogs, N, g)
         IN  /\ catalogs' = r.cats
             /\ err' = r.err
             /\ ret' = IF r.err = "none" THEN <<r.cats>> ELSE None
    /\ pc' = "done"
    /\ UNCHANGED <<N, orig, catalog, column_mapping, subhalos, arr, units,
                   selection, only_finite, ans, file, prompts>>

MatchNext == MatchSubfind

SpecMatch == MatchInit /\ [][MatchNext]_vars

\* ---- properties of match_subfind (under SpecMatch)
MatchDone == pc = "done"
OrigIds(c) == Get(orig[c], SubfindID).data
OrigFields(c) == KeySet(orig[c]) \ {SubfindID}
AllInBounds == \A c \in 1..Len(orig) : IndexInBounds(OrigIds(c), N)
UniqueIds(ids) == \A i, j \in 1..Len(ids) : ids[i] = ids[j] => i = j
Matched(ids) == {ids[i][2] + 1 : i \in 1..Len(ids)}
\* The last record of the catalogue that carries the identifier of record i.
LastOf(ids, i) == CHOOSE j \in 1..Len(ids) :
                     /\ ids[j] = ids[i]
                     /\ \A l \in 1..Len(ids) : ids[l] = ids[i] => l <= j

\* C1 (as claimed): a sparse catalogue with M < N records and unique
\* identifiers in [0, N): every field but the identifier becomes a length-N
\* array that holds field[i] at position subfindID[i] and NaN at each of the
\* other N - M positions.
C1_AlignUniqueFillsNaN ==
    (MatchDone /\ AllInBounds) =>
        \A c \in 1..Len(orig) :
            (UniqueIds(OrigIds(c)) /\ Len(OrigIds(c)) < N) =>
                \A key \in OrigFields(c) :
                    /\ HasKey(catalogs[c], key)
                    /\ LET a == Get(catalogs[c], key).data
                           d == Get(orig[c], key).data
                       IN  /\ Len(a) = N
                           /\ \A i \in 1..Len(d) : a[OrigIds(c)[i][2] + 1] = d[i]
                           /\ \A p \in (1..N) \ Matched(OrigIds(c)) : a[p] = NaN

\* C2: with repeated identifiers the alignment does not fail, and the aligned
\* value at a repeated identifier is the field value of the last record that
\* carries it.
C2_DuplicateLastWins ==
    (MatchDone /\ AllInBounds) =>
        /\ err = "none"
        /\ \A c \in 1..Len(orig) : \A key \in OrigFields(c) :
              \A i \in 1..Len(OrigIds(c)) :
                 (\E j \in 1..Len(OrigIds(c)) : j # i /\ OrigIds(c)[j] = OrigIds(c)[i]) =>
                     Get(catalogs[c], key).data[OrigIds(c)[i][2] + 1]
                         = Get(orig[c], key).data[LastOf(OrigIds(c), i)]

\* C2's case: a call has returned for a catalogue in which two records with
\* different values carry one identifier.
C2_Witness ==
    /\ MatchDone /\ err = "none"
    /\ \E c \in 1..Len(orig) : \E key \in OrigFields(c) :
          \E i, j \in 1..Len(OrigIds(c)) :
             /\ i < j /\ OrigIds(c)[i] = OrigIds(c)[j]
             /\ Get(orig[c], key).data[i] # Get(orig[c], key).data[j]

\* C8 (as claimed): an integer-typed field is aligned without an error into a
\* floating array that holds NaN at every unmatched position and the original
\* values at the matched ones.
C8_IntFieldAlignedAsFloat ==
    (MatchDone /\ AllInBounds) =>
        /\ err = "none"
        /\ \A c \in 1..Len(orig) : \A key \in OrigFields(c) :
              Get(orig[c], key).dtype = "int" =>
                 LET a == Get(catalogs[c], key)
                     d == Get(orig[c], key).data
                 IN  /\ a.dtype = "float"
                     /\ \A i \in 1..Len(d) :
                           a.data[OrigIds(c)[i][2] + 1] = d[LastOf(OrigIds(c), i)]
                     /\ \A p \in (1..N) \ Matched(OrigIds(c)) : a.data[p] = NaN

\* ------------------------------------- merge_subhalos_with_supplementary
RECURSIVE Concat(_)
Concat(seqs) == IF seqs = <<>> THEN <<>> ELSE Head(seqs) \o Concat(Tail(seqs))

\* The (key, value) pairs of [subhalos] + supplementary_catalogs, in the order
\* both loops visit them.
MergeItems(sub, supp) == Concat(<<sub>> \o supp)

\* numpy rejects a structured dtype that names a field twice.
RepeatsName(names) == \E i, j \in 1..Len(names) : i # j /\ names[i] = names[j]
TakesRepeatedNames(names) == FALSE
DtypeRejected(names) == RepeatsName(names)

\* numpy.full(N, numpy.nan, dtype=dtype): one column per name, of the format
\* of the value that named it, holding the cast of NaN.
FullRecords(n, items, g) ==
    [i \in 1..Len(items) |->
        [k |-> items[i].k, v |-> NumpyFull(n, items[i].v.dtype, g)]]

\* arr[key] = value: the value has one element per record, or a single one
\* that is broadcast; any other length raises ValueError.
Assignable(value, n) == Len(value.data) = n \/ Len(value.data) = 1
KeepColumn(a, key, value, n) == a
AssignField(a, key, value, n) ==
    Update(a, key, [Get(a, key) EXCEPT !.data =
                       [i \in 1..n |-> IF Len(value.data) = n THEN value.data[i]
                                       ELSE value.data[1]]])

RECURSIVE FillFrom(_, _, _, _)
FillFrom(a, items, i, n) ==
    IF i > Len(items) THEN a
    ELSE FillFrom(AssignField(a, items[i].k, items[i].v, n), items, i + 1, n)

\* merge_subhalos_with_supplementary(subhalos, supplementary_catalogs): the
\* exception raised, the array returned, and subhalos as the call leaves it
\* (its count popped).
merge_subhalos_with_supplementary(sub, supp, g) ==
    IF ~HasKey(sub, Count)
    THEN [err |-> "ValueError", arr |-> None, subhalos |-> sub]
    ELSE LET n == Get(sub, Count).data[1][2]
             rest == Pop(sub, Count)
             items == MergeItems(rest, supp)
         IN  IF DtypeRejected(Keys(items))
             THEN [err |-> "ValueError", arr |-> None, subhalos |-> rest]
             ELSE IF \E i \in 1..Len(items) : ~Assignable(items[i].v, n)
             THEN [err |-> "ValueError", arr |-> None, subhalos |-> rest]
             ELSE [err |-> "none",
                   arr |-> FillFrom(FullRecords(n, items, g), items, 1, n),
                   subhalos |-> rest]

\* A dense primary catalogue: fields a and/or b, float or integer, record i
\* holding i, with or without its count.
DenseArrays(n) == {Array1(t, [i \in 1..n |-> Fin(i)]) : t \in {"float", "int"}}
CountEntry(n) == [k |-> Count, v |-> Array1("pyint", <<Fin(n)>>)]
DenseFields(n) ==
    {<<[k |-> f, v |-> x]>> : f \in FieldNames, x \in DenseArrays(n)}
    \cup {<<[k |-> <<"a">>, v |-> x], [k |-> <<"b">>, v |-> y]>> :
             x \in DenseArrays(n), y \in DenseArrays(n)}
DenseCatalogs(n) ==
    DenseFields(n) \cup {d \o <<CountEntry(n)>> : d \in DenseFields(n)}
                   \cup {<<CountEntry(n)>> \o d : d \in DenseFields(n)}

\* An aligned supplementary catalogue, the j-th kind: one float field b or c
\* of length N (or N - 1, a catalogue aligned to another universe), known on
\* a set S of positions, where it holds 10 * j + position, and NaN elsewhere.
AlignedArrays(n, j) ==
    {Array1("float", [i \in 1..len |-> IF i \in S THEN Fin(10 * j + i) ELSE NaN]) :
        <<len, S>> \in {ls \in ((n - 1)..n) \X SUBSET (1..n) : ls[2] \subseteq 1..ls[1]}}
AlignedCatalogs(n, j) ==
    {<<[k |-> f, v |-> x]>> : f \in {<<"b">>, <<"c">>}, x \in AlignedArrays(n, j)}

MergeInit ==
    /\ pc = "merge"
    /\ N \in 1..MaxN
    /\ subhalos \in DenseCatalogs(N)
    /\ catalogs \in {<<>>} \cup {<<c>> : c \in AlignedCatalogs(N, 1)}
                    \cup {<<c, d>> : c \in AlignedCatalogs(N, 1), d \in AlignedCatalogs(N, 2)}
    /\ orig = <<subhalos>> \o catalogs
    /\ arr = None /\ ret = None /\ err = "none"
    /\ catalog = None /\ column_mapping = None
    /\ units = None /\ selection = None /\ only_finite = FALSE
    /\ ans = "" /\ file = None /\ prompts = 0

\* The call arr = merge_subhalos_with_supplementary(subhalos, catalogs).
Merge ==
    /\ pc = "merge"
    /\ \E g \in CastNaNToInt :
         LET r == merge_subhalos_with_supplementary(subhalos, catalogs, g)
         IN  /\ subhalos' = r.subhalos
             /\ err' = r.err
             /\ arr' = r.arr
             /\ ret' = IF r.err = "none" THEN <<r.arr>> ELSE None
    /\ pc' = "done"
    /\ UNCHANGED <<N, orig, catalogs, catalog, column_mapping, units,
                   selection, only_finite, ans, file, prompts>>

MergeNext == Merge

SpecMerge == MergeInit /\ [][MergeNext]_vars

\* ---- properties of the merge (under SpecMerge)
MergeDone == pc = "done"
\* The catalogues as passed in, the primary one first and without its count.
MergeInputs == [c \in 1..Len(orig) |-> Pop(orig[c], Count)]
MergeInputNames == Keys(Concat(MergeInputs))
HasCount == HasKey(orig[1], Count)
AllLengthN ==
    \A c \in 1..Len(orig) : \A key \in KeySet(MergeInputs[c]) :
        Len(Get(orig[c], key).data) = N
\* The last catalogue, in processing order, that has the field.
LastWith(key) == CHOOSE c \in 1..Len(orig) :
                    /\ HasKey(MergeInputs[c], key)
                    /\ \A d \in 1..Len(orig) : HasKey(MergeInputs[d], key) => d <= c

C4_MergeKeepsEveryField ==
    (MergeDone /\ HasCount /\ AllLengthN /\ ~RepeatsName(MergeInputNames)) =>
        /\ err = "none"
        /\ Len(ret) = 1
        /\ Keys(ret[1]) = MergeInputNames
        /\ \A c \in 1..Len(orig) : \A key \in KeySet(MergeInputs[c]) :
              /\ Len(Get(ret[1], key).data) = N
              /\ Get(ret[1], key) = Get(orig[c], key)

\* C4's case: the merge has returned for a dense field and a sparse field that
\* is known at some indices and missing at others.
C4_Witness ==
    /\ MergeDone /\ err = "none" /\ HasCount /\ AllLengthN /\ Len(orig) >= 2
    /\ ~RepeatsName(MergeInputNames)
    /\ \E key \in KeySet(orig[2]) : \E i, j \in 1..N :
          /\ Get(orig[2], key).data[i] = NaN
          /\ Get(orig[2], key).data[j] # NaN
          /\ Get(ret[1], key).data[i] = NaN

\* ------------------------------------------------ unpack_catalog_columns
\* isinstance(catalog[field], numpy.ndarray): read_supplementary leaves what
\* is not a dataset (an h5py group) as it is.
Group == [dtype |-> "group", ndim |-> 0, data |-> <<>>]
IsArray(v) == v.dtype # "group"

NumCols(v) == Len(v.data[1])
ColumnInBounds(v, c) == c \in (0 - NumCols(v))..(NumCols(v) - 1)
\* data[:, column]; a negative column counts from the last one.
Column(v, c) ==
    Array1(v.dtype, [r \in 1..Len(v.data) |->
                        v.data[r][IF c < 0 THEN c + NumCols(v) + 1 ELSE c + 1]])

\* A name that counts the columns from one.
ColumnNameOfLast(field, c) == Append(field, c + 1)
\* field + "_{}".format(column)
ColumnName(field, c) == Append(field, c)

RECURSIVE AddColumnsFrom(_, _, _, _, _)
\* The loop over the columns from the j-th on; a column out of bounds raises
\* IndexError with the field already popped.
AddColumnsFrom(cat, field, data, columns, j) ==
    IF j > Len(columns) THEN [cat |-> cat, err |-> "none"]
    ELSE IF ~ColumnInBounds(data, columns[j]) THEN [cat |-> cat, err |-> "IndexError"]
    ELSE AddColumnsFrom(Update(cat, ColumnName(field, columns[j]), Column(data, columns[j])),
                        field, data, columns, j + 1)

\* The body of the loop over the fields for one field.
UnpackField(cat, field, mapping) ==
    LET v == Get(cat, field)
    IN  IF ~IsArray(v) THEN [cat |-> cat, err |-> "TypeError"]
        ELSE IF v.ndim = 1 THEN [cat |-> cat, err |-> "none"]
        ELSE IF ~HasKey(mapping, field) THEN [cat |-> cat, err |-> "RuntimeError"]
        ELSE IF ~Get(mapping, field).islist
             THEN [cat |-> cat, err |-> "UnboundLocalError"]
        ELSE AddColumnsFrom(Pop(cat, field), field, v, Get(mapping, field).cols, 1)

RECURSIVE UnpackFrom(_, _, _, _)
UnpackFrom(cat, fields, i, mapping) ==
    IF i > Len(fields) THEN [cat |-> cat, err |-> "none"]
    ELSE LET r == UnpackField(cat, fields[i], mapping)
         IN  IF r.err # "none" THEN r
             ELSE UnpackFrom(r.cat, fields, i + 1, mapping)

\* The fields to visit, listed before the loop starts.
UnpackFields(cat) == SelectSeq(Keys(cat), LAMBDA k : k \notin {Count, SubfindID})

unpack_catalog_columns(cat, mapping) == UnpackFrom(cat, UnpackFields(cat), 1, mapping)

\* Catalogues to unpack: an optional subfindID and count, then up to three
\* fields named A, B or A_1, each a 1-D array, a 2-D array or a group.  Field
\* number f holds 100 * f + 10 * row + column.
Rows == MaxM
UnpackNames == {<<"A">>, <<"B">>, <<"A", 1>>}
NameLists == {s \in UNION {[1..l -> UnpackNames] : l \in 1..3} :
                 \A i, j \in 1..Len(s) : s[i] = s[j] => i = j}
MakeField(kind, f) ==
    IF kind = "group" THEN Group
    ELSE IF kind = "1d"
         THEN Array1("float", [r \in 1..Rows |-> Fin(100 * f + 10 * r)])
         ELSE Array2("float", [r \in 1..Rows |->
                                  [c \in 1..MaxCols |-> Fin(100 * f + 10 * r + c - 1)]])
IdEntries == {<<>>,
              <<[k |-> SubfindID, v |-> Array1("int", [r \in 1..Rows |-> Fin(r - 1)])]>>,
              <<[k |-> Count, v |-> Array1("pyint", <<Fin(Rows)>>)]>>}
\* A column mapping value: a list of columns (one past the last included), or
\* a bare column number.
ColumnLists == UNION {[1..l -> 0..MaxCols] : l \in 0..2}
MappingValues ==
    {[islist |-> TRUE, cols |-> cs] : cs \in ColumnLists}
    \cup {[islist |-> FALSE, cols |-> <<1>>]}
MappingsOf(key, values) == {<<>>} \cup {<<[k |-> key, v |-> x]>> : x \in values}
ColumnMappings ==
    {a \o b \o c : a \in MappingsOf(<<"A">>, MappingValues),
                   b \in MappingsOf(<<"B">>, {[islist |-> TRUE, cols |-> <<1>>]}),
                   c \in MappingsOf(<<"A", 1>>, {[islist |-> TRUE, cols |-> <<0>>]})}

UnpackInit ==
    /\ pc = "unpack"
    /\ \E names \in NameLists : \E kinds \in [1..Len(names) -> {"1d", "2d", "group"}] :
       \E ids \in IdEntries :
          catalog = ids \o [i \in 1..Len(names) |->
                               [k |-> names[i], v |-> MakeField(kinds[i], i)]]
    /\ column_mapping \in ColumnMappings
    /\ orig = catalog
    /\ ret = None /\ err = "none"
    /\ catalogs = None /\ N = 0 /\ subhalos = None /\ arr = None
    /\ units = None /\ selection = None /\ only_finite = FALSE
    /\ ans = "" /\ file = None /\ prompts = 0

\* The call unpack_catalog_columns(catalog, column_mapping): the catalogue is
\* changed in place and is what the call returns.
Unpack ==
    /\ pc = "unpack"
    /\ LET r == unpack_catalog_columns(catalog, column_mapping)
       IN  /\ catalog' = r.cat
           /\ err' = r.err
           /\ ret' = IF r.err = "none" THEN <<r.cat>> ELSE None
    /\ pc' = "done"
    /\ UNCHANGED <<N, orig, catalogs, column_mapping, subhalos, arr, units,
                   selection, only_finite, ans, file, prompts>>

UnpackNext == Unpack

SpecUnpack == UnpackInit /\ [][UnpackNext]_vars

\* ---- properties of unpack_catalog_columns (under SpecUnpack)
UnpackReturned == pc = "done" /\ err = "none"
\* The 2-D fields of the catalogue passed in that the mapping lists columns for.
Unpacked == {f \in KeySet(orig) \ {Count, SubfindID} :
                /\ Get(orig, f).ndim = 2
                /\ HasKey(column_mapping, f)
                /\ Get(column_mapping, f).islist}
ColumnsOf(f) == {Get(column_mapping, f).cols[j] : j \in 1..Len(Get(column_mapping, f).cols)}
\* The entries that are to stay: the 1-D fields, subfindID and count.
Kept == {f \in KeySet(orig) : f \in {Count, SubfindID} \/ Get(orig, f).ndim = 1}
\* No name made for a column is the name of an entry the catalogue already has.
NoNameClash == \A f \in Unpacked : \A c \in ColumnsOf(f) : ~HasKey(orig, Append(f, c))

UnpackedAsClaimed ==
    /\ \A f \in Unpacked :
          /\ ~HasKey(catalog, f)
          /\ \A c \in ColumnsOf(f) :
                /\ HasKey(catalog, Append(f, c))
                /\ Get(catalog, Append(f, c)) = Column(Get(orig, f), c)
    /\ \A f \in Kept : HasKey(catalog, f) /\ Get(catalog, f) = Get(orig, f)
    /\ ret = <<catalog>>

\* C6 (as claimed): every 2-D field with a list of columns in the mapping is
\* replaced by 1-D fields {field}_{c} equal to its columns c, every 1-D field,
\* subfindID and count are left unchanged, and the catalogue is returned.
C6_UnpackColumns == UnpackReturned => UnpackedAsClaimed

\* C6 (amended): the same, provided no generated name {field}_{c} is the name
\* of an entry the catalogue already has.
C6_UnpackColumnsNoClash == (UnpackReturned /\ NoNameClash) => UnpackedAsClaimed

\* C6's case: the call has returned after unpacking a 2-D field into at least
\* one column beside a 1-D field that is kept.
C6_Witness ==
    /\ UnpackReturned /\ NoNameClash
    /\ \E f \in Unpacked : ColumnsOf(f) # {}
    /\ \E f \in Kept : f \notin {Count, SubfindID}

\* -------------------------------------------- apply_multiplicative_units
\* In this part a name is spelled out, one character per element.
Lower(ch) ==
    CASE ch = "A" -> "a" [] ch = "F" -> "f" [] ch = "H" -> "h" [] ch = "M" -> "m"
      [] ch = "R" -> "r" [] ch = "S" -> "s" [] OTHER -> ch
\* str.lower()
LowerStr(s) == [i \in 1..Len(s) |-> Lower(s[i])]
\* u in s, for strings
IsSubstring(u, s) == \E i \in 0..(Len(s) - Len(u)) : SubSeq(s, i + 1, i + Len(u)) = u

MatchesCaseSensitive(unit, name) == IsSubstring(unit, name)
\* unit.lower() in name.lower()
Matches(unit, name) == IsSubstring(LowerStr(unit), LowerStr(name))

\* One element times a factor; NaN stays NaN.
Times(x, factor) == IF IsFin(x) THEN Fin(x[2] * factor) ELSE x

RECURSIVE ApplyUnitsTo(_, _, _, _)
\* The inner loop for one name, from the j-th unit on: array[name] *= factor
\* for every unit that matches.
ApplyUnitsTo(a, name, us, j) ==
    IF j > Len(us) THEN a
    ELSE ApplyUnitsTo(
            IF Matches(us[j].k, name)
            THEN Update(a, name, [Get(a, name) EXCEPT !.data =
                                     [i \in 1..Len(@) |-> Times(@[i], us[j].v)]])
            ELSE a,
            name, us, j + 1)

RECURSIVE ApplyNamesFrom(_, _, _, _)
ApplyNamesFrom(a, names, i, us) ==
    IF i > Len(names) THEN a
    ELSE ApplyNamesFrom(ApplyUnitsTo(a, names[i], us, 1), names, i + 1, us)

apply_multiplicative_units(a, us) == ApplyNamesFrom(a, Keys(a), 1, us)

\* Record arrays of one or two fields and units tables of up to two keys.
UnitFieldNames == {<<"S", "u", "b", "h", "a", "l", "o", "M", "a", "s", "s">>,
                   <<"m", "a", "s", "s">>,
                   <<"S", "F", "R">>}
UnitKeys == {<<"M", "a", "s", "s">>, <<"M", "A", "S", "S">>, <<"s", "f", "r">>,
             <<"s">>, <<"H">>, <<>>}
Factors == {2, 10}
UnitData == [1..Rows -> {Fin(1), NaN}]
UnitArrays ==
    {<<[k |-> f, v |-> Array1("float", d)]>> : f \in UnitFieldNames, d \in UnitData}
    \cup {<<[k |-> f, v |-> Array1("float", d)], [k |-> h, v |-> Array1("float", e)]>> :
             <<f, h>> \in {fh \in UnitFieldNames \X UnitFieldNames : fh[1] # fh[2]},
             d \in UnitData, e \in UnitData}
UnitTables ==
    {<<>>} \cup {<<[k |-> u, v |-> x]>> : u \in UnitKeys, x \in Factors}
    \cup {<<[k |-> u, v |-> x], [k |-> w, v |-> y]>> :
             <<u, w>> \in {uw \in UnitKeys \X UnitKeys : uw[1] # uw[2]},
             x \in Factors, y \in Factors}

UnitsInit ==
    /\ pc = "units"
    /\ arr \in UnitArrays
    /\ units \in UnitTables
    /\ orig = arr
    /\ ret = None /\ err = "none"
    /\ catalog = None /\ column_mapping = None /\ catalogs = None /\ N = 0
    /\ subhalos = None /\ selection = None /\ only_finite = FALSE
    /\ ans = "" /\ file = None /\ prompts = 0

\* The call apply_multiplicative_units(arr, units): the array is scaled in
\* place and returned.
ApplyUnits ==
    /\ pc = "units"
    /\ arr' = apply_multiplicative_units(arr, units)
    /\ ret' = <<arr'>>
    /\ pc' = "done"
    /\ UNCHANGED <<N, orig, catalog, catalogs, column_mapping, subhalos, units,
                   selection, only_finite, err, ans, file, prompts>>

UnitsNext == ApplyUnits

SpecUnits == UnitsInit /\ [][UnitsNext]_vars

\* ---- properties of apply_multiplicative_units (under SpecUnits)
\* The positions of the units table whose key occurs in the name, whatever the
\* case of either.
MatchingUnits(name) ==
    {j \in 1..Len(units) : \E i \in 0..(Len(name) - Len(units[j].k)) :
        \A l \in 1..Len(units[j].k) : Lower(name[i + l]) = Lower(units[j].k[l])}
RECURSIVE FactorProduct(_)
FactorProduct(J) ==
    IF J = {} THEN 1
    ELSE LET j == CHOOSE x \in J : TRUE IN units[j].v * FactorProduct(J \ {j})

LessOrEqual(x, y) ==
    \/ IsFin(x) /\ IsFin(y) /\ x[2] <= y[2]
    \/ IsFin(x) /\ y = Inf
    \/ x = Inf /\ y = Inf
Less(x, y) ==
    \/ IsFin(x) /\ IsFin(y) /\ x[2] < y[2]
    \/ IsFin(x) /\ y = Inf

\* isinstance(lims, (tuple, list)) and len(lims) == 2
GoodLims(lims) == lims.islist /\ Len(lims.b) = 2

\* (lower < array[par]) & (array[par] < upper)
BoundsMask(a, par, lims) ==
    [r \in 1..Len(Get(a, par).data) |->
        Less(lims.b[1], Get(a, par).data[r]) /\ Less(Get(a, par).data[r], lims.b[2])]

\* The masks of the bounds, in the order of the mapping.
BoundsMasks(a, sel) == [i \in 1..Len(sel) |-> BoundsMask(a, sel[i].k, sel[i].v)]

NoFiniteMasks(a, flag) == <<>>
\* The masks appended when only_finite is set: numpy.isfinite of every field.
FiniteMasks(a, flag) ==
    IF flag
    THEN [i \in 1..Len(a) |-> [r \in 1..Len(a[i].v.data) |-> IsFin(a[i].v.data[r])]]
    ELSE <<>>

RECURSIVE AndFrom(_, _, _)
\* final_mask &= mask for the masks from the i-th on.
AndFrom(final, masks, i) ==
    IF i > Len(masks) THEN final
    ELSE AndFrom([r \in 1..Len(final) |-> final[r] /\ masks[i][r]], masks, i + 1)

\* array[final_mask]: the records whose mask is set, in their order.
Rows1(mask) == SelectSeq([r \in 1..Len(mask) |-> r], LAMBDA r : mask[r])
TakeRows(a, mask) ==
    [i \in 1..Len(a) |->
        [k |-> a[i].k,
         v |-> [a[i].v EXCEPT !.data = [j \in 1..Len(Rows1(mask)) |-> @[Rows1(mask)[j]]]]]]

\* apply_selection(array, selection, only_finite): the exception raised and
\* the array returned.  The limits are checked entry by entry, so the first
\* bad entry decides the exception.
apply_selection(a, sel, flag) ==
    LET bad == {i \in 1..Len(sel) : ~GoodLims(sel[i].v) \/ ~HasKey(a, sel[i].k)}
    IN  IF bad # {}
        THEN LET i0 == CHOOSE i \in bad : \A j \in bad : i <= j
             IN  [err |-> IF ~GoodLims(sel[i0].v) THEN "TypeError" ELSE "ValueError",
                  out |-> None]
        ELSE LET masks == BoundsMasks(a, sel) \o FiniteMasks(a, flag)
             IN  IF Len(masks) = 0
                 THEN [err |-> "IndexError", out |-> None]
                 ELSE [err |-> "none",
                       out |-> <<TakeRows(a, AndFrom(masks[1], masks, 2))>>]

\* Record arrays with a field x and possibly a field y, with no record or
\* Rows records, and selections of up to two entries on x, y or a field z
\* that no array has.
SelValues == {Fin(v) : v \in 0..MaxVal} \cup {NaN, Inf}
SelArrays ==
    UNION {
      {<<[k |-> <<"x">>, v |-> Array1("float", d)]>> : d \in [1..n -> SelValues]}
      \cup
      {<<[k |-> <<"x">>, v |-> Array1("float", d)], [k |-> <<"y">>, v |-> Array1("float", e)]>> :
          d \in [1..n -> SelValues], e \in [1..n -> {Fin(1), NaN}]}
      : n \in {0, Rows}}
Lims ==
    {[islist |-> TRUE, b |-> <<Fin(lo), Fin(hi)>>] : lo \in 0..1, hi \in (MaxVal - 1)..MaxVal}
    \cup {[islist |-> TRUE, b |-> <<Fin(0), Fin(MaxVal), Fin(MaxVal)>>],
          [islist |-> FALSE, b |-> <<Fin(0)>>]}
SelPars == {<<"x">>, <<"y">>, <<"z">>}
Selections ==
    {<<>>} \cup {<<[k |-> p, v |-> l]>> : p \in SelPars, l \in Lims}
    \cup {<<[k |-> p, v |-> l], [k |-> q, v |-> m]>> :
             <<p, q>> \in {pq \in SelPars \X SelPars : pq[1] # pq[2]},
             l \in Lims, m \in Lims}

SelectInit ==
    /\ pc = "select"
    /\ arr \in SelArrays
    /\ selection \in Selections
    /\ only_finite \in BOOLEAN
    /\ orig = arr
    /\ ret = None /\ err = "none"
    /\ catalog = None /\ column_mapping = None /\ catalogs = None /\ N = 0
    /\ subhalos = None /\ units = None
    /\ ans = "" /\ file = None /\ prompts = 0

\* The call out = apply_selection(arr, selection, only_finite=only_finite).
ApplySelection ==
    /\ pc = "select"
    /\ LET r == apply_selection(arr, selection, only_finite)
       IN  err' = r.err /\ ret' = r.out
    /\ pc' = "done"
    /\ UNCHANGED <<N, orig, arr, catalog, catalogs, column_mapping, subhalos,
                   units, selection, only_finite, ans, file, prompts>>

SelectNext == ApplySelection

SpecSelect == SelectInit /\ [][SelectNext]_vars

\* ---- properties of apply_selection (under SpecSelect)
SelectDone == pc = "done"
\* Every entry is a pair of limits on a field of the array.
WellFormedSelection ==
    \A i \in 1..Len(selection) :
        /\ selection[i].v.islist /\ Len(selection[i].v.b) = 2
        /\ HasKey(arr, selection[i].k)
NumRecords == Len(arr[1].v.data)
StrictlyInside(x, lims) ==
    /\ IsFin(x)
    /\ lims.b[1][2] < x[2]
    /\ x[2] < lims.b[2][2]
\* Record r is to be kept: inside the limits of every bounded field and, with
\* only_finite, finite in every field.
Wanted(r) ==
    /\ \A i \in 1..Len(selection) :
          StrictlyInside(Get(arr, selection[i].k).data[r], selection[i].v)
    /\ only_finite => \A f \in KeySet(arr) : Get(arr, f).data[r][1] = "fin"
WantedRows == {r \in 1..NumRecords : Wanted(r)}
\* The j-th smallest of a set of record numbers.
Nth(S, j) == CHOOSE r \in S : Cardinality({q \in S : q < r}) = j - 1

\* C5: with a non-empty bounds mapping the result holds, in the original
\* order and unaltered, exactly the records that lie strictly inside the
\* limits of every bounded field (so no boundary value and no NaN) and that,
\* with only_finite, are finite in every field.
C5_SelectionKeepsExactly ==
    (SelectDone /\ WellFormedSelection /\ Len(selection) > 0) =>
        /\ err = "none"
        /\ Len(ret) = 1
        /\ Keys(ret[1]) = Keys(arr)
        /\ \A f \in KeySet(arr) :
              /\ Len(Get(ret[1], f).data) = Cardinality(WantedRows)
              /\ \A j \in 1..Cardinality(WantedRows) :
                    Get(ret[1], f).data[j] = Get(arr, f).data[Nth(WantedRows, j)]

\* C5's case: a selection has kept a record that lies strictly inside the
\* limits and has dropped another, and some record lies on a limit.
C5_Witness ==
    /\ SelectDone /\ err = "none" /\ WellFormedSelection /\ Len(selection) > 0
    /\ \E r \in 1..NumRecords : Wanted(r)
    /\ \E r \in 1..NumRecords : \E i \in 1..Len(selection) :
          Get(arr, selection[i].k).data[r] \in {selection[i].v.b[1], selection[i].v.b[2]}
    /\ Len(Get(ret[1], <<"x">>).data) < NumRecords

\* C9: with well-formed bounds on existing fields the call fails only when
\* there is no criterion at all (no bounds and only_finite off); with at least
\* one criterion it returns a collection, which may be empty.
C9_FailsOnlyWithoutCriteria ==
    (SelectDone /\ WellFormedSelection) =>
        /\ (err # "none") <=> (Len(selection) = 0 /\ ~only_finite)
        /\ err = "none" => Len(ret) = 1 /\ Keys(ret[1]) = Keys(arr)

\* C9's case: a selection that matches none of several records has returned
\* an empty collection.
C9_Witness ==
    /\ SelectDone /\ WellFormedSelection /\ err = "none"
    /\ NumRecords > 0
    /\ Len(ret) = 1 /\ Len(ret[1][1].v.data) = 0

\* ------------------------------------------- the driver's save protocol
\* What the operator may type at the prompt.
OperatorInputs == {"Y", "n", "y", "N", "", "yes", "no"}
AcceptedOrEmpty(a) == a \in {"Y", "n", ""}
\* ans in inps, with inps = ['Y', 'n']
Accepted(a) == a \in {"Y", "n"}

\* The pipeline has completed with the selection out (ret); the output path
\* names no file, or a file with older content (0).
DriverInit ==
    /\ pc = "line88"
    /\ ret \in {<<v>> : v \in 1..MaxVal}
    /\ file \in {None, <<0>>}
    /\ orig = file
    /\ ans = "" /\ prompts = 0 /\ err = "none"
    /\ catalog = None /\ column_mapping = None /\ catalogs = None /\ N = 0
    /\ subhalos = None /\ arr = None /\ units = None /\ selection = None
    /\ only_finite = FALSE

\* ans = 'Y'
DefaultAnswer ==
    /\ pc = "line88"
    /\ ans' = "Y"
    /\ pc' = "isfile"
    /\ UNCHANGED <<catalog, column_mapping, catalogs, N, subhalos, arr, units,
                   selection, only_finite, ret, err, orig, file, prompts>>

\* if isfile(output_path):
IsFile ==
    /\ pc = "isfile"
    /\ pc' = IF file # None THEN "prompt" ELSE "decide"
    /\ UNCHANGED <<catalog, column_mapping, catalogs, N, subhalos, arr, units,
                   selection, only_finite, ret, err, orig, ans, file, prompts>>

\* One turn of the while loop: the operator answers, and the loop is left only
\* with an accepted answer.
Prompt ==
    /\ pc = "prompt"
    /\ prompts < MaxPrompts
    /\ \E a \in OperatorInputs :
          /\ ans' = a
          /\ pc' = IF Accepted(a) THEN "decide" ELSE "prompt"
    /\ prompts' = prompts + 1
    /\ UNCHANGED <<catalog, column_mapping, catalogs, N, subhalos, arr, units,
                   selection, only_finite, ret, err, orig, file>>

\* if ans == 'Y': numpy.save(output_path, out)
Save ==
    /\ pc = "decide"
    /\ ans = "Y"
    /\ file' = ret
    /\ pc' = "done"
    /\ UNCHANGED <<catalog, column_mapping, catalogs, N, subhalos, arr, units,
                   selection, only_finite, ret, err, orig, ans, prompts>>

\* else: the job is completed but not saved.
NotSaved ==
    /\ pc = "decide"
    /\ ans # "Y"
    /\ pc' = "done"
    /\ UNCHANGED <<catalog, column_mapping, catalogs, N, subhalos, arr, units,
                   selection, only_finite, ret, err, orig, ans, file, prompts>>

DriverNext == DefaultAnswer \/ IsFile \/ Prompt \/ Save \/ NotSaved

SpecDriver == DriverInit /\ [][DriverNext]_vars

\* ---- properties of the save protocol (under SpecDriver)
Existed == orig # None

\* C10: without a file at the output path the result is saved unprompted;
\* with one, the operator is prompted until the answer is exactly Y or n (any
\* other answer prompts again and writes nothing), the file is overwritten
\* only after Y, and after n it is not written.
C10_SaveProtocol ==
    /\ (pc = "done" /\ ~Existed) => (prompts = 0 /\ file = ret)
    /\ (Existed /\ pc \in {"decide", "done"}) => (prompts >= 1 /\ ans \in {"Y", "n"})
    /\ (Existed /\ pc = "prompt" /\ prompts >= 1) => (ans \notin {"Y", "n"} /\ file = orig)
    /\ file # orig => (pc = "done" /\ ans = "Y" /\ file = ret)
    /\ (pc = "done" /\ ans = "Y") => file = ret
    /\ (pc = "done" /\ ans = "n") => file = orig

\* C10's case: the operator has answered an existing file's prompt with
\* something else first and then with Y, and the file has been overwritten.
C10_Witness ==
    /\ Existed /\ pc = "done" /\ prompts >= 2 /\ ans = "Y" /\ file = ret

====
